---- MODULE Spec2Model ----
(***************************************************************************)
(* The convert screen of Vitomu: ConvertComponent (the clipboard-driven    *)
(* state machine) on top of ConvertService (the conversion orchestration). *)
(*                                                                         *)
(* The component's three handlers run on one UI thread, so each handler is *)
(* one atomic action.  Asynchronous operations (the prerequisites check,   *)
(* convertAsync, the delayed reset) are split at their await points.       *)
(*                                                                         *)
(* zone.run(f) runs f synchronously and is left out.                       *)
(*                                                                         *)
(* The component is written against collaborators whose code is not part   *)
(* of the sources at hand: the Delayer, the ClipboardWatcher, the          *)
(* converter, and the publisher of convert.convertStateChanged$ (the       *)
(* ConvertService at hand has a progress stream only, and its convertAsync *)
(* publishes no state).  Events on that stream are therefore inputs: a     *)
(* converting or terminal state may be published at any time, also by a    *)
(* conversion that the service, a root singleton, was running before this  *)
(* component was created.                                                  *)
(*                                                                         *)
(* A text is a sequence of one-character strings, so that "contains" and   *)
(* "is blank" are computed on the characters.                              *)
(***************************************************************************)
EXTENDS Integers, Sequences, FiniteSets, TLC

VARIABLES
    convertState,            \* ConvertComponent._convertState
    progressPercent,         \* ConvertComponent._progressPercent
    downloadUrl,             \* ConvertComponent._downloadUrl
    lifecycle,               \* "constructed" | "initialised" | "destroyed"
    checkPending,            \* ngOnInit is suspended in await checkPrerequisitesAsync()
    timers,                  \* Delayer: remaining ms of each pending delayed action, oldest first
    conversions,             \* number of ConvertService.convertAsync calls in flight
    lastConvertedFilePath,   \* ConvertService._lastConvertedFilePath
    lastConvertedFileName,   \* ConvertService._lastConvertedFileName
    selectedAudioFormat,     \* ConvertService._selectedAudioFormat: <<id>>, or << >> for undefined
    selectedAudioBitrate,    \* ConvertService._selectedAudioBitrate: <<n>>, or << >> for undefined
    settings,                \* Settings: the persisted audioFormat and audioBitrate
    dependencyAvailable,     \* per dependency: what its DependencyChecker reports
    calls,                   \* per dependency and caller: where its download...Async call stands
    completed,               \* per dependency: some downloadAsync has completed
    serviceConstructed,      \* the ConvertService constructor has run
    terminalAge,             \* observer: ms since the latest entry into Successful/Failed (capped)
    last                     \* observer: the operation that produced this state, and its input

\* the component, the conversions and the clock
componentVars == <<convertState, progressPercent, downloadUrl, lifecycle, checkPending,
                   timers, conversions, lastConvertedFilePath, lastConvertedFileName,
                   terminalAge>>

\* the service's selection and its dependencies
serviceVars == <<selectedAudioFormat, selectedAudioBitrate, settings, dependencyAvailable, calls,
                 completed, serviceConstructed>>

vars == <<componentVars, serviceVars, last>>

----------------------------------------------------------------------------
(* Bounds of the model *)

\* convertAsync calls that may be in flight together
MaxConversions == 2

\* delayed actions that may be pending together
MaxTimers == 2

\* callers that may be inside downloadFfmpegAsync (or downloadYoutubeDlAsync) together
MaxCallers == 2

\* length of the texts isVideoUrlConvertible is tried on
MaxTextLen == 3

\* the clock advances in steps of ResetDelayMs / TicksPerDelay
TicksPerDelay == 2

----------------------------------------------------------------------------
(* Program constants and value sets *)

\* the delay handed to Delayer.execute
ResetDelayMs == 3000

TickMs == ResetDelayMs \div TicksPerDelay

\* the states the service publishes on convertStateChanged$
PublishedStates == {"Converting", "Successful", "Failed"}

\* Constants.youtubeLinks: the known link substrings
youtubeLinks == { <<"y", "t">>, <<"y", "b">> }

WhiteSpace == {" "}

EmptyText == << >>

\* the clipboard texts the watcher reports
ClipboardTexts ==
    { EmptyText, <<" ">>, <<"x">>, <<"y", "t">>, <<"x", "y", "b">> }

\* null, which is no text, stands as a sequence of one token that is no character
NullText == <<"null">>

\* the characters of the texts isVideoUrlConvertible is tried on
Alphabet == {"y", "t", "b", "x", " "}

\* every text of at most MaxTextLen characters, and null
BoundedTexts ==
    UNION { [1 .. n -> Alphabet] : n \in 0 .. MaxTextLen } \cup {NullText}

\* Constants.audioFormats, by id, and Constants.audioBitrates
audioFormats == {"mp3", "flac", "ogg", "m4a"}
audioBitrates == {128, 160, 192, 256, 320}

\* what the settings store may hold when the application starts: a listed value,
\* or one written by hand or by a version with another list
PersistedFormats == audioFormats \cup {"wav"}
PersistedBitrates == audioBitrates \cup {96}

\* the dependencies and the callers of their download operations
Dependencies == {"ffmpeg", "youtubeDl"}
Callers == 1 .. MaxCallers

\* the values the converter passes to its progress callback
ProgressValues == {45, 100}

\* the paths a converter reports as convertedFilePath
ConvertedPaths == { <<"Vitomu", "a.mp3">>, <<"Vitomu", "b.mp3">> }

\* the results a converter returns
ConversionResults ==
    [isConversionSuccessful : {TRUE}, convertedFilePath : ConvertedPaths]
      \cup
    [isConversionSuccessful : {FALSE}, convertedFilePath : {EmptyText}]

----------------------------------------------------------------------------
(* Pure helpers *)

\* String.prototype.includes
Includes(text, sub) ==
    \E i \in 0 .. (Len(text) - Len(sub)) : SubSeq(text, i + 1, i + Len(sub)) = sub

\* Strings.isNullOrWhiteSpace
isNullOrWhiteSpace(text) ==
    \/ text = NullText
    \/ \A i \in 1 .. Len(text) : text[i] \in WhiteSpace

\* String.prototype.startsWith
StartsWith(text, sub) ==
    Len(sub) <= Len(text) /\ SubSeq(text, 1, Len(sub)) = sub

\* isVideoUrlConvertible accepting a link only at the start of the text
isVideoUrlConvertiblePrefixOnly(videoUrl) ==
    IF ~ isNullOrWhiteSpace(videoUrl)
      THEN \E x \in youtubeLinks : StartsWith(videoUrl, x)
      ELSE FALSE

\* ConvertService.isVideoUrlConvertible
isVideoUrlConvertible(videoUrl) ==
    IF ~ isNullOrWhiteSpace(videoUrl)
      THEN \E x \in youtubeLinks : Includes(videoUrl, x)
      ELSE FALSE

\* FileSystem.getFileName: the last segment of a path
getFileName(path) ==
    IF Len(path) = 0 THEN EmptyText ELSE <<path[Len(path)]>>

\* Array.prototype.find for the element equal to wanted, on a list without
\* duplicates: <<x>> for the element found, << >> for undefined
Find(list, wanted) ==
    IF \E x \in list : x = wanted THEN <<CHOOSE x \in list : x = wanted>> ELSE << >>

Min(a, b) == IF a < b THEN a ELSE b

View(cs, pp, url) ==
    [convertState |-> cs, progressPercent |-> pp, downloadUrl |-> url]

----------------------------------------------------------------------------
(* ConvertComponent: the handlers, as functions of the fields they read *)

\* ConvertComponent.resetState
resetState ==
    View("WaitingForClipboardContent", 0, EmptyText)

\* handleClipboardContentChanged without its early return
handleClipboardAnyState(cs, pp, url, clipboardText) ==
    IF isVideoUrlConvertible(clipboardText)
      THEN View("HasValidClipboardContent", pp, clipboardText)
      ELSE resetState

\* handleClipboardContentChanged keeping a link it already holds
handleClipboardFirstLinkWins(cs, pp, url, clipboardText) ==
    IF cs # "WaitingForClipboardContent" /\ cs # "HasValidClipboardContent"
      THEN View(cs, pp, url)
      ELSE IF isVideoUrlConvertible(clipboardText)
             THEN View("HasValidClipboardContent", pp,
                       IF url = EmptyText THEN clipboardText ELSE url)
             ELSE resetState

\* handleClipboardContentChanged that only changes the state on an unusable text
handleClipboardNoReset(cs, pp, url, clipboardText) ==
    IF cs # "WaitingForClipboardContent" /\ cs # "HasValidClipboardContent"
      THEN View(cs, pp, url)
      ELSE IF isVideoUrlConvertible(clipboardText)
             THEN View("HasValidClipboardContent", pp, clipboardText)
             ELSE View("WaitingForClipboardContent", pp, url)

\* ConvertComponent.handleClipboardContentChanged
handleClipboardContentChanged(cs, pp, url, clipboardText) ==
    IF cs # "WaitingForClipboardContent" /\ cs # "HasValidClipboardContent"
      THEN View(cs, pp, url)
      ELSE IF isVideoUrlConvertible(clipboardText)
             THEN View("HasValidClipboardContent", pp, clipboardText)
             ELSE resetState

\* handleConvertProgressChanged that never lets the shown progress go back
handleProgressNeverBack(cs, pp, url, p) ==
    View(cs, IF p > pp THEN p ELSE pp, url)

\* ConvertComponent.handleConvertProgressChanged
handleConvertProgressChanged(cs, pp, url, p) ==
    View(cs, p, url)

\* ConvertComponent.handleConvertStateChanged: the assignment
handleConvertStateChanged(cs, pp, url, s) ==
    View(s, pp, url)

\* ConvertComponent.handleConvertStateChanged: whether it starts a delayed reset
SchedulesReset(s) ==
    s = "Failed" \/ s = "Successful"

\* ConvertComponent.checkPrerequisitesAsync: the state it assigns
prerequisitesState(available) ==
    IF available THEN "WaitingForClipboardContent" ELSE "FFmpegNotFound"

\* subscriptions that ngOnDestroy does not release
SubscribedForGood == lifecycle # "constructed"

\* the three subscriptions of ngOnInit live until ngOnDestroy
Subscribed == lifecycle = "initialised"

SetView(v) ==
    /\ convertState' = v.convertState
    /\ progressPercent' = v.progressPercent
    /\ downloadUrl' = v.downloadUrl

\* the observer's record: the operation, its input and, for the clipboard handler and
\* the delayed reset, the convertState it found (unused fields at their defaults)
Op(op, text, state, num, ok) ==
    [op |-> op, text |-> text, state |-> state, num |-> num, ok |-> ok]

DidOp(op) == last' = Op(op, EmptyText, "", 0, FALSE)
DidText(op, text) == last' = Op(op, text, "", 0, FALSE)
DidState(op, state) == last' = Op(op, EmptyText, state, 0, FALSE)
DidNum(op, num) == last' = Op(op, EmptyText, "", num, FALSE)
DidFlag(op, ok) == last' = Op(op, EmptyText, "", 0, ok)

----------------------------------------------------------------------------
(* Initial state: the component constructed (its constructor calls          *)
(* resetState), the service constructed, nothing in flight.                 *)

ComponentInit ==
    /\ convertState = resetState.convertState
    /\ progressPercent = resetState.progressPercent
    /\ downloadUrl = resetState.downloadUrl
    /\ lifecycle = "constructed"
    /\ checkPending = FALSE
    /\ timers = << >>
    /\ conversions = 0
    /\ lastConvertedFilePath = EmptyText
    /\ lastConvertedFileName = EmptyText
    /\ terminalAge = ResetDelayMs

\* ConvertService constructor: the selection is looked up from the settings
selectedFormatOf(store) ==
    Find(audioFormats, store.audioFormat)

selectedBitrateOf(store) ==
    Find(audioBitrates, store.audioBitrate)

\* no download operation has been called
NoCalls == [d \in Dependencies |-> [c \in Callers |-> "idle"]]

\* the service constructed over a settings store holding its defaults, no dependency
\* downloaded yet
ServiceReady ==
    /\ settings = [audioFormat |-> "mp3", audioBitrate |-> 320]
    /\ selectedAudioFormat = selectedFormatOf(settings)
    /\ selectedAudioBitrate = selectedBitrateOf(settings)
    /\ serviceConstructed = TRUE
    /\ dependencyAvailable = [d \in Dependencies |-> FALSE]
    /\ calls = NoCalls
    /\ completed = [d \in Dependencies |-> FALSE]

Init ==
    /\ ComponentInit
    /\ ServiceReady
    /\ last = Op("constructor", EmptyText, "", 0, FALSE)

----------------------------------------------------------------------------
(* Lifecycle *)

\* ngOnInit up to its await: the three subscriptions, then the check is started
ngOnInit ==
    /\ UNCHANGED serviceVars
    /\ lifecycle = "constructed"
    /\ lifecycle' = "initialised"
    /\ checkPending' = TRUE
    /\ DidOp("ngOnInit")
    /\ UNCHANGED <<convertState, progressPercent, downloadUrl, timers, conversions,
                   lastConvertedFilePath, lastConvertedFileName, terminalAge>>

\* the continuation of checkPrerequisitesAsync once the service has answered
checkPrerequisitesAsync(available) ==
    /\ UNCHANGED serviceVars
    /\ checkPending
    /\ checkPending' = FALSE
    /\ convertState' = prerequisitesState(available)
    /\ DidFlag("checkPrerequisites", available)
    /\ UNCHANGED <<progressPercent, downloadUrl, lifecycle, timers, conversions,
                   lastConvertedFilePath, lastConvertedFileName, terminalAge>>

\* ngOnDestroy: subscription.unsubscribe() and nothing else
ngOnDestroy ==
    /\ UNCHANGED serviceVars
    /\ lifecycle = "initialised"
    /\ lifecycle' = "destroyed"
    /\ DidOp("ngOnDestroy")
    /\ UNCHANGED <<convertState, progressPercent, downloadUrl, checkPending, timers,
                   conversions, lastConvertedFilePath, lastConvertedFileName, terminalAge>>

----------------------------------------------------------------------------
(* Delayer: execute(action, ms) runs the action once, ms later.  The only   *)
(* action ever handed to it is resetState.                                  *)

\* Delayer.execute: one more pending action, due in delayMilliseconds
DelayerExecute(pending, delayMilliseconds) ==
    Append(pending, delayMilliseconds)

\* the delayed actions after `elapsed` ms
Elapse(pending, elapsed) ==
    [i \in DOMAIN pending |-> pending[i] - elapsed]

\* ms until the oldest pending action is due (a full tick when none is pending)
NextDue(pending) ==
    IF pending = << >> THEN TickMs ELSE Head(pending)

\* the oldest pending action is due: () => this.resetState()
DelayerFire ==
    /\ UNCHANGED serviceVars
    /\ timers # << >>
    /\ NextDue(timers) = 0
    /\ timers' = Tail(timers)
    /\ SetView(resetState)
    /\ DidState("delayer", convertState)
    /\ UNCHANGED <<lifecycle, checkPending, conversions, lastConvertedFilePath,
                   lastConvertedFileName, terminalAge>>

\* time passes, never beyond the next due action
Tick ==
    /\ UNCHANGED serviceVars
    /\ NextDue(timers) > 0
    /\ LET step == Min(TickMs, NextDue(timers))
       IN  /\ timers' = Elapse(timers, step)
           /\ terminalAge' = Min(ResetDelayMs, terminalAge + step)
    /\ DidOp("tick")
    /\ UNCHANGED <<convertState, progressPercent, downloadUrl, lifecycle, checkPending,
                   conversions, lastConvertedFilePath, lastConvertedFileName>>

----------------------------------------------------------------------------
(* The three event streams.  An event is delivered to the component's       *)
(* handler only while its subscription lives.                               *)

\* clipboardWatcher.clipboardContentChanged$ emits clipboardText
ClipboardContentChanged(clipboardText) ==
    /\ UNCHANGED serviceVars
    /\ IF Subscribed
         THEN SetView(handleClipboardContentChanged(
                        convertState, progressPercent, downloadUrl, clipboardText))
         ELSE UNCHANGED <<convertState, progressPercent, downloadUrl>>
    /\ last' = Op("clipboard", clipboardText, convertState, 0, FALSE)
    /\ UNCHANGED <<lifecycle, checkPending, timers, conversions, lastConvertedFilePath,
                   lastConvertedFileName, terminalAge>>

\* convert.convertStateChanged$ emits s
ConvertStateChanged(s) ==
    /\ UNCHANGED serviceVars
    /\ IF Subscribed
         THEN /\ SetView(handleConvertStateChanged(
                           convertState, progressPercent, downloadUrl, s))
              /\ IF SchedulesReset(s)
                   THEN /\ Len(timers) < MaxTimers
                        /\ timers' = DelayerExecute(timers, ResetDelayMs)
                        /\ terminalAge' = 0
                   ELSE UNCHANGED <<timers, terminalAge>>
         ELSE UNCHANGED <<convertState, progressPercent, downloadUrl, timers, terminalAge>>
    /\ DidState("state", s)
    /\ UNCHANGED <<lifecycle, checkPending, conversions, lastConvertedFilePath,
                   lastConvertedFileName>>

----------------------------------------------------------------------------
(* ConvertService.convertAsync *)

\* the view offers the convert action while a link is held
ConvertOffered ==
    /\ lifecycle = "initialised"
    /\ convertState = "HasValidClipboardContent"

\* ConvertComponent.performConvert: convertAsync(downloadUrl) is started, its promise dropped
performConvert ==
    /\ UNCHANGED serviceVars
    /\ ConvertOffered
    /\ conversions < MaxConversions
    /\ conversions' = conversions + 1
    /\ DidText("performConvert", downloadUrl)
    /\ UNCHANGED <<convertState, progressPercent, downloadUrl, lifecycle, checkPending,
                   timers, lastConvertedFilePath, lastConvertedFileName, terminalAge>>

\* the converter of a call in flight reports progress: onConversionProgressChanged(p),
\* which the progress stream hands to handleConvertProgressChanged
onConversionProgressChanged(p) ==
    /\ UNCHANGED serviceVars
    /\ conversions > 0
    /\ IF Subscribed
         THEN SetView(handleConvertProgressChanged(
                        convertState, progressPercent, downloadUrl, p))
         ELSE UNCHANGED <<convertState, progressPercent, downloadUrl>>
    /\ DidNum("progress", p)
    /\ UNCHANGED <<lifecycle, checkPending, timers, conversions, lastConvertedFilePath,
                   lastConvertedFileName, terminalAge>>

\* convertAsync recording the converter's path whatever the result
convertAsyncRecordsAnyResult(conversionResult) ==
    /\ UNCHANGED serviceVars
    /\ conversions > 0
    /\ conversions' = conversions - 1
    /\ lastConvertedFilePath' = conversionResult.convertedFilePath
    /\ lastConvertedFileName' = getFileName(conversionResult.convertedFilePath)
    /\ last' = Op("convertAsyncReturns", conversionResult.convertedFilePath, "", 0,
                  conversionResult.isConversionSuccessful)
    /\ UNCHANGED <<convertState, progressPercent, downloadUrl, lifecycle, checkPending,
                   timers, terminalAge>>

\* the converter of a call in flight returns conversionResult; convertAsync records
\* it and returns it to its caller
convertAsyncReturns(conversionResult) ==
    /\ UNCHANGED serviceVars
    /\ conversions > 0
    /\ conversions' = conversions - 1
    /\ IF conversionResult.isConversionSuccessful
         THEN /\ lastConvertedFilePath' = conversionResult.convertedFilePath
              /\ lastConvertedFileName' = getFileName(conversionResult.convertedFilePath)
         ELSE UNCHANGED <<lastConvertedFilePath, lastConvertedFileName>>
    /\ last' = Op("convertAsyncReturns", conversionResult.convertedFilePath, "", 0,
                  conversionResult.isConversionSuccessful)
    /\ UNCHANGED <<convertState, progressPercent, downloadUrl, lifecycle, checkPending,
                   timers, terminalAge>>

----------------------------------------------------------------------------

Next ==
    \/ ngOnInit
    \/ \E available \in BOOLEAN : checkPrerequisitesAsync(available)
    \/ ngOnDestroy
    \/ \E clipboardText \in ClipboardTexts : ClipboardContentChanged(clipboardText)
    \/ \E s \in PublishedStates : ConvertStateChanged(s)
    \/ performConvert
    \/ \E p \in ProgressValues : onConversionProgressChanged(p)
    \/ \E r \in ConversionResults : convertAsyncReturns(r)
    \/ DelayerFire
    \/ Tick

Spec == Init /\ [][Next]_vars

----------------------------------------------------------------------------
(* ConvertService: the audio selection.  The settings store is read when    *)
(* the service is constructed and written by the two setters.               *)

\* the settings store as the application finds it, the service not yet constructed
SettingsInit ==
    /\ ComponentInit
    /\ settings \in [audioFormat : PersistedFormats, audioBitrate : PersistedBitrates]
    /\ selectedAudioFormat = << >>
    /\ selectedAudioBitrate = << >>
    /\ serviceConstructed = FALSE
    /\ dependencyAvailable = [d \in Dependencies |-> FALSE]
    /\ calls = NoCalls
    /\ completed = [d \in Dependencies |-> FALSE]
    /\ last = Op("settingsLoaded", EmptyText, "", 0, FALSE)

\* ConvertService.constructor
ConvertServiceConstructor ==
    /\ ~ serviceConstructed
    /\ serviceConstructed' = TRUE
    /\ selectedAudioFormat' = selectedFormatOf(settings)
    /\ selectedAudioBitrate' = selectedBitrateOf(settings)
    /\ DidOp("ConvertService")
    /\ UNCHANGED <<settings, dependencyAvailable, calls, completed>>
    /\ UNCHANGED componentVars

\* set selectedAudioFormat(v)
setSelectedAudioFormat(v) ==
    /\ serviceConstructed
    /\ selectedAudioFormat' = <<v>>
    /\ settings' = [settings EXCEPT !.audioFormat = v]
    /\ DidState("selectedAudioFormat", v)
    /\ UNCHANGED <<selectedAudioBitrate, dependencyAvailable, calls, completed,
                   serviceConstructed>>
    /\ UNCHANGED componentVars

\* set selectedAudioBitrate(v)
setSelectedAudioBitrate(v) ==
    /\ serviceConstructed
    /\ selectedAudioBitrate' = <<v>>
    /\ settings' = [settings EXCEPT !.audioBitrate = v]
    /\ DidNum("selectedAudioBitrate", v)
    /\ UNCHANGED <<selectedAudioFormat, dependencyAvailable, calls, completed,
                   serviceConstructed>>
    /\ UNCHANGED componentVars

SettingsNext ==
    \/ ConvertServiceConstructor
    \/ \E v \in audioFormats : setSelectedAudioFormat(v)
    \/ \E v \in audioBitrates : setSelectedAudioBitrate(v)

SpecSettings == SettingsInit /\ [][SettingsNext]_vars

----------------------------------------------------------------------------
(* ConvertService.downloadFfmpegAsync / downloadYoutubeDlAsync.  A call     *)
(* awaits the checker, then, if it must, awaits the downloader.  A          *)
(* dependency is available from the start (installed) or once a download of *)
(* it has completed.                                                        *)

\* a download that goes ahead whatever the checker answered
ShouldDownloadAlways(isAvailable) == TRUE

\* the test turned round: a download of what is already there
ShouldDownloadWhenAvailable(isAvailable) == isAvailable

\* the test of downloadFfmpegAsync / downloadYoutubeDlAsync on the checker's answer
ShouldDownload(isAvailable) == ~ isAvailable

\* the service constructed, each dependency installed or not
DownloadInit ==
    /\ ComponentInit
    /\ settings = [audioFormat |-> "mp3", audioBitrate |-> 320]
    /\ selectedAudioFormat = selectedFormatOf(settings)
    /\ selectedAudioBitrate = selectedBitrateOf(settings)
    /\ serviceConstructed = TRUE
    /\ dependencyAvailable \in [Dependencies -> BOOLEAN]
    /\ calls = NoCalls
    /\ completed = [d \in Dependencies |-> FALSE]
    /\ last = Op("constructor", EmptyText, "", 0, FALSE)

\* caller c calls the download operation of dependency d, which awaits the checker
downloadCalled(d, c) ==
    /\ calls[d][c] = "idle"
    /\ calls' = [calls EXCEPT ![d][c] = "checking"]
    /\ last' = Op("downloadCalled", EmptyText, d, c, FALSE)
    /\ UNCHANGED <<selectedAudioFormat, selectedAudioBitrate, settings,
                   dependencyAvailable, completed, serviceConstructed>>
    /\ UNCHANGED componentVars

\* the checker answers call c: the call returns, or starts downloadAsync
checkerAnswers(d, c) ==
    /\ calls[d][c] = "checking"
    /\ calls' = [calls EXCEPT ![d][c] =
                   IF ShouldDownload(dependencyAvailable[d]) THEN "downloading" ELSE "idle"]
    /\ last' = Op("checkerAnswers", EmptyText, d, c, dependencyAvailable[d])
    /\ UNCHANGED <<selectedAudioFormat, selectedAudioBitrate, settings,
                   dependencyAvailable, completed, serviceConstructed>>
    /\ UNCHANGED componentVars

\* downloadAsync of call c ends: completed (the dependency is there) or failed
downloadAsyncEnds(d, c, ok) ==
    /\ calls[d][c] = "downloading"
    /\ calls' = [calls EXCEPT ![d][c] = "idle"]
    /\ dependencyAvailable' =
         IF ok THEN [dependencyAvailable EXCEPT ![d] = TRUE] ELSE dependencyAvailable
    /\ completed' = IF ok THEN [completed EXCEPT ![d] = TRUE] ELSE completed
    /\ last' = Op("downloadAsyncEnds", EmptyText, d, c, ok)
    /\ UNCHANGED <<selectedAudioFormat, selectedAudioBitrate, settings,
                   serviceConstructed>>
    /\ UNCHANGED componentVars

DownloadNext ==
    \/ \E d \in Dependencies, c \in Callers : downloadCalled(d, c)
    \/ \E d \in Dependencies, c \in Callers : checkerAnswers(d, c)
    \/ \E d \in Dependencies, c \in Callers, ok \in BOOLEAN : downloadAsyncEnds(d, c, ok)

SpecDownload == DownloadInit /\ [][DownloadNext]_vars

\* the downloadAsync calls of dependency d in flight
Downloading(d) == {c \in Callers : calls[d][c] = "downloading"}

----------------------------------------------------------------------------
(* ConvertService.isVideoUrlConvertible, tried on every bounded text *)

\* a text is at hand
ConvertibleInit ==
    /\ ComponentInit
    /\ ServiceReady
    /\ \E text \in BoundedTexts : last = Op("text", text, "", 0, FALSE)

\* isVideoUrlConvertible(text) is called and answers
isVideoUrlConvertibleCalled ==
    /\ last.op = "text"
    /\ last' = Op("isVideoUrlConvertible", last.text, "", 0, isVideoUrlConvertible(last.text))
    /\ UNCHANGED <<componentVars, serviceVars>>

ConvertibleNext == isVideoUrlConvertibleCalled

SpecConvertible == ConvertibleInit /\ [][ConvertibleNext]_vars

----------------------------------------------------------------------------
(* Properties *)

IdleStates == {"WaitingForClipboardContent", "HasValidClipboardContent"}

TerminalStates == {"Successful", "Failed"}

\* a step taken by the operation op
Step(op) == last'.op = op

\* C1: from performConvert's call of convertAsync until that conversion has
\* completed and its auto-reset has run (a call in flight, or a converting or
\* terminal state), no clipboard-change event changes convertState or downloadUrl.
C1_ClipboardNeverDisturbsConversion ==
    [][ ( /\ conversions > 0 \/ convertState \in {"Converting"} \cup TerminalStates
          /\ Step("clipboard") )
        => UNCHANGED <<convertState, downloadUrl>> ]_vars

\* C2: in every state other than WaitingForClipboardContent and
\* HasValidClipboardContent, a clipboard-change event, whatever its text, leaves
\* convertState, downloadUrl and progressPercent unchanged.
C2_ClipboardIgnoredOutsideIdle ==
    [][ (convertState \notin IdleStates /\ Step("clipboard"))
        => UNCHANGED <<convertState, downloadUrl, progressPercent>> ]_vars

\* C2 witness: the live component has handled a clipboard event carrying a
\* convertible text while Failed, and still is Failed without that text.
C2_Witness ==
    /\ Subscribed
    /\ last.op = "clipboard"
    /\ last.state = "Failed"
    /\ isVideoUrlConvertible(last.text)
    /\ convertState = "Failed"
    /\ downloadUrl # last.text

\* C4: downloadUrl is non-empty only if convertState is HasValidClipboardContent,
\* a converting state, Successful or Failed; so it is empty whenever convertState
\* is WaitingForClipboardContent or FFmpegNotFound.
C4_UrlOnlyWithLinkOrConversion ==
    downloadUrl # EmptyText
      => convertState \in {"HasValidClipboardContent", "Converting"} \cup TerminalStates
\* C3: a reset that follows an entry into Successful or Failed does not happen
\* before the 3000 ms started by that entry have elapsed, also when several
\* terminal-state events arrive within one delay window: whenever the delayed
\* reset runs in a terminal state, the latest entry is at least 3000 ms old.
C3_NoResetBeforeDelay ==
    [][ (convertState \in TerminalStates /\ Step("delayer"))
        => terminalAge >= ResetDelayMs ]_vars

\* C5: once ngOnDestroy has run, the delayed reset never changes convertState,
\* progressPercent or downloadUrl.
C5_NoDelayedResetAfterDestroy ==
    [][ (lifecycle = "destroyed" /\ Step("delayer"))
        => UNCHANGED <<convertState, progressPercent, downloadUrl>> ]_vars

\* C6: when the converter of a convertAsync call returns, the live component's
\* convertState becomes Successful for a successful result and Failed for a
\* failed one.
C6_CompletionSetsTerminalState ==
    [][ (Subscribed /\ Step("convertAsyncReturns"))
        => convertState' = (IF last'.ok THEN "Successful" ELSE "Failed") ]_vars

\* C7: in WaitingForClipboardContent or HasValidClipboardContent, a handled
\* clipboard event with a convertible text gives HasValidClipboardContent with
\* downloadUrl exactly that text, whatever downloadUrl was.
C7_ConvertibleTextIsTaken ==
    [][ ( /\ Subscribed
          /\ convertState \in IdleStates
          /\ Step("clipboard")
          /\ isVideoUrlConvertible(last'.text) )
        => /\ convertState' = "HasValidClipboardContent"
           /\ downloadUrl' = last'.text ]_vars

\* C7 witness: a link was held (HasValidClipboardContent), another convertible
\* text arrived, and the component now holds that one.
C7_Witness ==
    /\ Subscribed
    /\ last.op = "clipboard"
    /\ last.state = "HasValidClipboardContent"
    /\ last.text = <<"x", "y", "b">>
    /\ convertState = "HasValidClipboardContent"
    /\ downloadUrl = <<"x", "y", "b">>

\* C8: in HasValidClipboardContent or WaitingForClipboardContent, a handled
\* clipboard event with a text that is not convertible gives
\* WaitingForClipboardContent with downloadUrl empty and progressPercent 0.
C8_UnusableTextResets ==
    [][ ( /\ Subscribed
          /\ convertState \in IdleStates
          /\ Step("clipboard")
          /\ ~ isVideoUrlConvertible(last'.text) )
        => /\ convertState' = "WaitingForClipboardContent"
           /\ downloadUrl' = EmptyText
           /\ progressPercent' = 0 ]_vars

\* C8 witness: a link was held, an unrelated non-blank text arrived, and the
\* component is back to waiting with nothing held.
C8_Witness ==
    /\ Subscribed
    /\ last.op = "clipboard"
    /\ last.state = "HasValidClipboardContent"
    /\ last.text = <<"x">>
    /\ convertState = "WaitingForClipboardContent"
    /\ downloadUrl = EmptyText
    /\ progressPercent = 0

\* C9: once the startup check has left FFmpegNotFound, no clipboard event,
\* progress event or timer changes convertState, and the check is not run again.
C9_FFmpegNotFoundStays ==
    [][ /\ ( /\ convertState = "FFmpegNotFound"
             /\ Step("clipboard") \/ Step("progress") \/ Step("delayer") \/ Step("tick") )
           => convertState' = "FFmpegNotFound"
        /\ (lifecycle # "constructed" /\ ~ checkPending) => ~ checkPending' ]_vars

\* C10: there are never two convertAsync calls in flight.
C10_AtMostOneConversion ==
    conversions <= 1
\* C11: the value the converter passes to the progress callback reaches the
\* component unchanged: right after the component has handled a progress event
\* with value p, progressPercent is p (no smoothing, no reordering).
C11_ProgressMirrored ==
    [][ (Subscribed /\ Step("progress")) => progressPercent' = last'.num ]_vars

\* C11 witness: the live component shows 45 right after the converter reported 45.
C11_Witness ==
    /\ Subscribed
    /\ last.op = "progress"
    /\ last.num = 45
    /\ progressPercent = 45

\* C13: convertAsync sets lastConvertedFilePath and lastConvertedFileName to the
\* result's path and its file name on a successful result, leaves both unchanged
\* on a failed one, and nothing else changes them; so lastConvertedFilePath is
\* the path of the latest successful conversion, or '' if none succeeded.
C13_LastConvertedOnlyOnSuccess ==
    [][ IF Step("convertAsyncReturns") /\ last'.ok
          THEN /\ lastConvertedFilePath' = last'.text
               /\ lastConvertedFileName' = getFileName(last'.text)
          ELSE UNCHANGED <<lastConvertedFilePath, lastConvertedFileName>> ]_vars

\* C13 witness: a failed conversion has just returned and the path of an earlier
\* successful one is still recorded.
C13_Witness ==
    /\ last.op = "convertAsyncReturns"
    /\ ~ last.ok
    /\ lastConvertedFilePath = <<"Vitomu", "a.mp3">>
    /\ lastConvertedFileName = <<"a.mp3">>

\* C15: after ngOnDestroy no event on the state stream, the progress stream or
\* the clipboard stream changes convertState, progressPercent or downloadUrl,
\* and none schedules a delayed reset.
C15_NoEventAfterDestroy ==
    [][ ( /\ lifecycle = "destroyed"
          /\ Step("state") \/ Step("progress") \/ Step("clipboard") )
        => UNCHANGED <<convertState, progressPercent, downloadUrl, timers>> ]_vars

\* C15 witness: the destroyed component has been sent a Failed state event and
\* neither took the state nor scheduled a reset.
C15_Witness ==
    /\ lifecycle = "destroyed"
    /\ last.op = "state"
    /\ last.state = "Failed"
    /\ convertState # "Failed"
    /\ timers = << >>

\* C17: the delayed reset only ever runs while convertState is still Successful
\* or Failed; it never discards a link taken in HasValidClipboardContent and
\* never overwrites the state of a later conversion.
C17_ResetOnlyInTerminalState ==
    [][ Step("delayer") => convertState \in TerminalStates ]_vars

\* C18: progressPercent is 0 whenever convertState is WaitingForClipboardContent
\* or HasValidClipboardContent.
C18_NoProgressWhileIdle ==
    convertState \in IdleStates => progressPercent = 0

----------------------------------------------------------------------------
(* Properties of ConvertService, under SpecSettings, SpecDownload and       *)
(* SpecConvertible                                                          *)

\* C12: a call of downloadFfmpegAsync / downloadYoutubeDlAsync whose checker
\* reports the dependency available starts no download and leaves the state
\* as it was before the call: the call is over, nothing else has changed.  So
\* a second call, made after the download of the first has completed, starts
\* no second download.
C12_AvailableStartsNoDownload ==
    [][ (Step("checkerAnswers") /\ last'.ok)
        => /\ \A d \in Dependencies : Downloading(d)' = Downloading(d)
           /\ calls' = [calls EXCEPT ![last'.state][last'.num] = "idle"]
           /\ UNCHANGED <<dependencyAvailable, completed, settings,
                          selectedAudioFormat, selectedAudioBitrate>> ]_vars

\* the second call after a completed download has had its answer, and no call
\* is left running
C12_Witness ==
    /\ last.op = "checkerAnswers"
    /\ last.ok
    /\ completed[last.state]
    /\ calls = NoCalls

HasVisibleCharacter(text) ==
    \E i \in 1 .. Len(text) : text[i] \notin WhiteSpace

\* the characters of link stand in the text from position i on
LinkAt(text, link, i) ==
    /\ i + Len(link) - 1 <= Len(text)
    /\ \A j \in 1 .. Len(link) : text[i + j - 1] = link[j]

\* C16: isVideoUrlConvertible(text) answers true exactly when the text is not
\* null, not blank, and holds one of the known links at some position; the
\* call changes no state.
C16_ConvertibleIffNonBlankWithLink ==
    [][ Step("isVideoUrlConvertible")
        => /\ last'.text = last.text
           /\ last'.ok <=> /\ last.text # NullText
                           /\ HasVisibleCharacter(last.text)
                           /\ \E link \in youtubeLinks :
                                \E i \in 1 .. Len(last.text) : LinkAt(last.text, link, i)
           /\ UNCHANGED <<componentVars, serviceVars>> ]_vars

\* a link in the middle of a text is found
C16_Witness ==
    /\ last.op = "isVideoUrlConvertible"
    /\ last.text = <<"x", "y", "b">>
    /\ last.ok

\* C19 as stated: at no time are two downloads of the same dependency in flight.
C19_AtMostOneDownloadInFlight ==
    \A d \in Dependencies : Cardinality(Downloading(d)) <= 1

\* C19, amended: overlapping calls are not serialized, and each starts the
\* downloader when its own check found the dependency missing, so two downloads
\* of one dependency can be in flight together.  What holds: a download is in
\* flight for a dependency that is available only when another download of that
\* dependency has completed since it started.
C19_DownloadOnlyStartedWhileMissing ==
    \A d \in Dependencies :
      (Downloading(d) # {} /\ dependencyAvailable[d]) => completed[d]

\* of two overlapping downloads of a dependency, one has completed and the
\* other is still in flight
C19_Witness ==
    \E d \in Dependencies :
      /\ Downloading(d) # {}
      /\ dependencyAvailable[d]
      /\ last.op = "downloadAsyncEnds"
      /\ last.state = d

====
